---- MODULE Spec2Model ----
(***************************************************************************)
(* gtfs2series: the GTFS Schedule job (schedule_fetcher.py) and the three  *)
(* GTFS Realtime jobs (realtime_fetcher.py, test_vehicle_positions.py,     *)
(* test_trip_updates.py) as state machines over the relational store.      *)
(*                                                                         *)
(* Each job is its own process: module-level state, one fetch() handler    *)
(* run by `while True: run_pending()`.  The library `schedule` does not    *)
(* catch what a job raises, so an exception leaving fetch() ends the       *)
(* process.  The store is the append log of the batches that to_sql /      *)
(* session.commit stored, in the order they were stored.                   *)
(***************************************************************************)
EXTENDS Integers, Sequences, FiniteSets, TLC

VARIABLES
    schema_created,   \* the tables were created by *_database.py (create_all): declared keys are enforced
    last_feed_tag,    \* schedule_fetcher.py: last_feed_tag["value"]
    sched_running,    \* the schedule process is alive
    sched_cycle,      \* number of fetch() runs of the schedule job so far
    sched_starts,     \* number of times the schedule process was started again
    sched_obs,        \* what the most recent schedule cycle observed (HEAD response)
    sched_log,        \* the logging calls of the most recent schedule cycle
    sdb,              \* schedule store: sequence of stored batches
    last_timestamp,   \* per realtime job: last_timestamp["value"]
    rt_running,       \* per realtime job: the process is alive
    rt_polls,         \* number of fetch() runs of the realtime jobs so far
    rt_job,           \* the realtime job that ran most recently
    rt_obs,           \* per realtime job: what its most recent poll observed
    rt_log,           \* per realtime job: the logging calls of its most recent poll
    utc_offset,       \* the local time zone of the host of the realtime jobs, as its offset from UTC
    rdb,              \* realtime store: sequence of stored batches
    created           \* the most recent create_record call of models/*.py and what it gave

svars == <<last_feed_tag, sched_running, sched_cycle, sched_starts, sched_obs, sched_log, sdb>>
rvars == <<last_timestamp, rt_running, rt_polls, rt_job, rt_obs, rt_log, utc_offset, rdb>>

(***************************************************************************)
(* Bounds                                                                  *)
(***************************************************************************)
MaxSchedCycles == 2
MaxRestarts == 1
MaxPolls == 2

None == "None"
Absent == "absent"          \* a header that the response does not carry

Tags == {"etag-A", "etag-B"}

\* Last-Modified header values (RFC 1123) and the instants they denote
RfcStrings == << "Mon, 01 Jan 2024 00:00:01 GMT", "Mon, 01 Jan 2024 00:00:02 GMT" >>
IsoStrings == << "2024-01-01T00:00:01", "2024-01-01T00:00:02" >>
Malformed == "yesterday"

feed_transit_system == "bus"

(***************************************************************************)
(* schedule_fetcher.py                                                     *)
(***************************************************************************)

TablesTripsBeforeRoutes ==
    << "agency", "stops", "shapes", "calendar", "calendar_dates",
       "trips", "routes", "stop_times", "frequencies", "feed_info" >>
\* tables = {...}  "They must be loaded in this order"
tables == << "agency", "stops", "shapes", "calendar", "calendar_dates",
             "routes", "trips", "stop_times", "frequencies", "feed_info" >>

TableNames == { tables[i] : i \in 1..Len(tables) }

\* X.__table__.columns.keys(): the declared columns.  The local key and the
\* descriptive columns of the non-shape tables are written "id" and "name".
Columns(t) ==
    IF t = "shapes"
    THEN {"feed_id", "shape_id", "shape_pt_sequence", "shape_pt_lat",
          "shape_pt_lon", "shape_dist_traveled"}
    ELSE {"feed_id", "id", "name"}

\* datetime.strptime(h, "%a, %d %b %Y %H:%M:%S %Z"): raises on anything else
StrptimeRaises(h) == ~ \E d \in 1..Len(RfcStrings) : RfcStrings[d] = h
Strptime(h) == CHOOSE d \in 1..Len(RfcStrings) : RfcStrings[d] = h
\* feed_last_modified.strftime("%Y-%m-%dT%H:%M:%S")
Strftime(d) == IsoStrings[d]

\* if not feed_tag == last_feed_tag["value"]
TagAlwaysChanged(feed_tag, last) == TRUE
TagChanged(feed_tag, last) == ~ (feed_tag = last)

\* table["feed_id"] = feed_id: sets the column on every row, adding it if missing
StampKeepSource(row, feed_id) ==
    IF "feed_id" \in DOMAIN row THEN row ELSE ("feed_id" :> feed_id) @@ row
Stamp(row, feed_id) == ("feed_id" :> feed_id) @@ row

\* table[[column for column in columns if column in table.columns]]
ProjectKeepAll(row, t) == row
Project(row, t) == [c \in (Columns(t) \cap DOMAIN row) |-> row[c]]

MapSeq(s, F(_)) == [i \in 1..Len(s) |-> F(s[i])]

RECURSIVE SelectRows(_, _)
\* table[table["shape_id"] == shape_id]: the rows of one shape, in table order
SelectRows(rows, sid) ==
    IF rows = << >> THEN << >>
    ELSE (IF Head(rows)["shape_id"] = sid THEN << Head(rows) >> ELSE << >>)
         \o SelectRows(Tail(rows), sid)

RECURSIVE Unique(_)
\* table["shape_id"].unique(): the distinct values in order of first appearance
Unique(ids) ==
    IF ids = << >> THEN << >>
    ELSE LET front == Unique(SubSeq(ids, 1, Len(ids) - 1))
             last  == ids[Len(ids)]
         IN  IF \E i \in 1..Len(front) : front[i] = last
             THEN front ELSE Append(front, last)

\* the WKT linestring of one shape: the points of its rows as iterrows() yields them
Wkt(shape) == [i \in 1..Len(shape) |-> << shape[i]["shape_pt_lon"], shape[i]["shape_pt_lat"] >>]

\* lines 117-132: one GeoShape per distinct shape_id of the stored shapes table
GeoShapes(table, feed_id) ==
    LET shape_ids == Unique([i \in 1..Len(table) |-> table[i]["shape_id"]])
    IN  [k \in 1..Len(shape_ids) |->
            [feed_id     |-> feed_id,
             geoshape_id |-> shape_ids[k],
             geoshape    |-> Wkt(SelectRows(table, shape_ids[k]))]]

(***************************************************************************)
(* The upstream: HEAD responses and archives                               *)
(***************************************************************************)
HeadResponses ==
    { [ok |-> FALSE, etag |-> Absent, last_modified |-> Absent],
      [ok |-> TRUE, etag |-> Absent, last_modified |-> RfcStrings[1]] }
    \cup [ok : {TRUE}, etag : Tags,
          last_modified : {RfcStrings[d] : d \in 1..Len(RfcStrings)} \cup {Absent, Malformed}]

ShapeRow(sid, seq, lon, lat) ==
    [shape_id |-> sid, shape_pt_sequence |-> seq, shape_pt_lon |-> lon, shape_pt_lat |-> lat]

\* an archive: the files it holds, the columns its files carry beyond the
\* declared ones (or a feed_id column of their own), and its shapes.txt rows
Archives ==
    { [files  |-> TableNames,
       extra  |-> << >>,
       shapes |-> << ShapeRow("S1", "1", "10", "20"), ShapeRow("S1", "2", "11", "21"),
                     ShapeRow("S1", "3", "12", "22") >>],
      [files  |-> TableNames \ {"calendar_dates", "frequencies", "feed_info"},
       extra  |-> ("feed_id" :> "2024-01-01T00:00:01") @@ ("extra" :> "x"),
       shapes |-> << ShapeRow("S1", "2", "11", "21"), ShapeRow("S2", "1", "30", "40"),
                     ShapeRow("S1", "1", "10", "20"), ShapeRow("S2", "2", "31", "41") >>],
      [files  |-> {"agency", "stops", "routes", "trips", "stop_times", "calendar"},
       extra  |-> ("feed_id" :> "someone-elses-feed"),
       shapes |-> << >>],
      [files  |-> {"agency", "shapes", "trips"},
       extra  |-> << >>,
       shapes |-> << ShapeRow("S1", "1", "10", "20"), ShapeRow("S1", "2", "11", "21"),
                     ShapeRow("S2", "1", "30", "40") >>] }

\* pd.read_csv(schedule_zip.open(file), dtype=str, ...): the rows of one file
ReadCsv(arch, t) ==
    IF t = "shapes"
    THEN [i \in 1..Len(arch.shapes) |-> arch.shapes[i] @@ arch.extra]
    ELSE << ("id" :> "1") @@ ("name" :> "n") @@ arch.extra >>

(***************************************************************************)
(* The store                                                               *)
(***************************************************************************)
Batch(t, cycle, rows) == [tbl |-> t, cycle |-> cycle, rows |-> rows]

RowsOfBatch(b) == { b.rows[k] : k \in 1..Len(b.rows) }

\* all rows of table t in the store
RowsOf(db, t) == UNION { RowsOfBatch(db[i]) : i \in { j \in 1..Len(db) : db[j].tbl = t } }

\* What the store refuses.  feeds.feed_id is the declared primary key of feeds.
\* GeoShape rows go through the ORM session into the declared geoshapes table:
\* the commit raises when that table was never created, and PostGIS refuses a
\* LINESTRING of fewer than two points.
StoreRaises(db, b) ==
    \/ /\ b.tbl = "feeds" /\ schema_created
       /\ \E r \in RowsOf(db, "feeds"), k \in 1..Len(b.rows) : r.feed_id = b.rows[k].feed_id
    \/ /\ b.tbl = "geoshapes" /\ b.rows # << >>
       /\ (~ schema_created \/ \E k \in 1..Len(b.rows) : Len(b.rows[k].geoshape) < 2)

(***************************************************************************)
(* fetch() of schedule_fetcher.py, lines 73-137                            *)
(***************************************************************************)
Step(b, events) == [batch |-> b, log |-> events]

\* lines 85-98: the Feed record
FeedStep(feed_id, resp, cycle) ==
    Step(Batch("feeds", cycle,
               << [feed_id             |-> feed_id,
                   feed_tag            |-> resp.etag,
                   feed_last_modified  |-> Strptime(resp.last_modified),
                   feed_transit_system |-> feed_transit_system] >>),
         << >>)

\* lines 101-102: requests.get and zipfile.ZipFile store nothing
GetStep(cycle) == Step(Batch("GET", cycle, << >>), << >>)

\* lines 104-133 for one table name: nothing when the archive lacks the file
TableSteps(arch, t, feed_id, cycle) ==
    IF t \notin arch.files THEN << >>
    ELSE LET table == MapSeq(ReadCsv(arch, t), LAMBDA row : Project(Stamp(row, feed_id), t))
         IN  << Step(Batch(t, cycle, table), << "Table " \o t \o " loaded" >>) >>
             \o (IF t = "shapes"
                 THEN << Step(Batch("geoshapes", cycle, GeoShapes(table, feed_id)),
                              << "Table geoshapes loaded" >>) >>
                 ELSE << >>)

RECURSIVE LoadSteps(_, _, _, _, _)
\* for table_name in tables.keys(): in the order given
LoadSteps(order, arch, i, feed_id, cycle) ==
    IF i > Len(order) THEN << >>
    ELSE TableSteps(arch, order[i], feed_id, cycle) \o LoadSteps(order, arch, i + 1, feed_id, cycle)

\* the proceed branch after feed_id is derived, as the sequence of its steps
ProceedStepsChildrenFirst(resp, arch, feed_id, cycle) ==
    << GetStep(cycle) >> \o LoadSteps(tables, arch, 1, feed_id, cycle)
        \o << FeedStep(feed_id, resp, cycle) >>
ProceedSteps(resp, arch, feed_id, cycle) ==
    << FeedStep(feed_id, resp, cycle), GetStep(cycle) >> \o LoadSteps(tables, arch, 1, feed_id, cycle)

\* the steps at which a parse, download or store failure is injected
FailPoints == {"none", "feeds", "GET", "shapes", "trips"}

RECURSIVE RunRollsBack(_, _, _, _, _)
RunRollsBack(db, log, steps, i, fail) ==
    IF i > Len(steps) THEN [db |-> db, log |-> log, raised |-> FALSE]
    ELSE IF steps[i].batch.tbl = fail \/ StoreRaises(db, steps[i].batch)
         THEN [db |-> SubSeq(db, 1, Len(db) - 1), log |-> log, raised |-> TRUE]
         ELSE RunRollsBack(IF steps[i].batch.tbl = "GET" THEN db ELSE Append(db, steps[i].batch),
                           log \o steps[i].log, steps, i + 1, fail)

RECURSIVE Run(_, _, _, _, _)
\* runs the steps from the i-th on; the step named `fail` raises (download,
\* parse or store failure), and so does a step the store refuses.  Nothing
\* catches it.
Run(db, log, steps, i, fail) ==
    IF i > Len(steps) THEN [db |-> db, log |-> log, raised |-> FALSE]
    ELSE IF steps[i].batch.tbl = fail \/ StoreRaises(db, steps[i].batch)
         THEN [db |-> db, log |-> log, raised |-> TRUE]
         ELSE Run(IF steps[i].batch.tbl = "GET" THEN db ELSE Append(db, steps[i].batch),
                  log \o steps[i].log, steps, i + 1, fail)

\* one run of fetch(): the new last_feed_tag, the store, the log, and whether
\* an exception left fetch()
Fetch(last, db, cycle, resp, arch, fail) ==
    IF ~ resp.ok \/ resp.etag = Absent
    THEN \* requests.head raises, or headers["ETag"] raises KeyError
         [tag |-> last, db |-> db, log |-> << "Checking" >>, raised |-> TRUE]
    ELSE IF ~ TagChanged(resp.etag, last)
    THEN [tag |-> last, db |-> db, raised |-> FALSE,
          log |-> << "Checking", "GTFS Schedule feed is unchanged" >>]
    ELSE IF resp.last_modified = Absent \/ StrptimeRaises(resp.last_modified)
    THEN \* line 83 has already stored the tag
         [tag |-> resp.etag, db |-> db, raised |-> TRUE,
          log |-> << "Checking", "New GTFS Schedule feed detected" >>]
    ELSE LET feed_id == Strftime(Strptime(resp.last_modified))
             r == Run(db, << "Checking", "New GTFS Schedule feed detected" >>,
                      ProceedSteps(resp, arch, feed_id, cycle), 1, fail)
         IN  [tag |-> resp.etag, db |-> r.db, log |-> r.log, raised |-> r.raised]

\* the cycle reaches the proceed branch's steps: only then do the archive and
\* the failing step matter
ReachesSteps(last, resp) ==
    /\ resp.ok /\ resp.etag # Absent /\ TagChanged(resp.etag, last)
    /\ resp.last_modified # Absent /\ ~ StrptimeRaises(resp.last_modified)

NoArchive == [files |-> {}, extra |-> << >>, shapes |-> << >>]

fetch_schedule ==
    /\ sched_running
    /\ sched_cycle < MaxSchedCycles
    /\ \E resp \in HeadResponses, arch \in Archives \cup {NoArchive}, fail \in FailPoints :
          /\ IF ReachesSteps(last_feed_tag, resp)
             THEN arch \in Archives /\ fail \in {"none", "feeds", "GET"} \cup arch.files
             ELSE arch = NoArchive /\ fail = "none"
          /\ \E r \in { Fetch(last_feed_tag, sdb, sched_cycle + 1, resp, arch, fail) } :
                 /\ last_feed_tag' = r.tag
                 /\ sdb' = r.db
                 /\ sched_log' = r.log
                 /\ sched_running' = ~ r.raised
          /\ sched_obs' = [ok |-> resp.ok, etag |-> resp.etag, archive |-> arch, fail |-> fail]
          /\ sched_cycle' = sched_cycle + 1
    /\ UNCHANGED << schema_created, sched_starts, rvars, created >>

\* lines 60-69, run when the process starts.  The query text is a plain string,
\* not an f-string: the store receives the literal {feed_transit_system},
\* refuses the statement, and the bare except leaves the value None.
LastTagAtStart(db) == None

start_schedule ==
    /\ ~ sched_running
    /\ sched_starts < MaxRestarts
    /\ sched_starts' = sched_starts + 1
    /\ last_feed_tag' = LastTagAtStart(sdb)
    /\ sched_running' = TRUE
    /\ sched_log' = << "No feed_tag found in the table 'feeds'", "A new feed will be imported" >>
    /\ UNCHANGED << schema_created, sched_cycle, sched_obs, sdb, rvars, created >>

vars == << schema_created, svars, rvars, created >>

InitSchedule ==
    /\ last_feed_tag = LastTagAtStart(<< >>)
    /\ sched_running = TRUE
    /\ sched_cycle = 0
    /\ sched_starts = 0
    /\ sched_obs = [ok |-> FALSE, etag |-> Absent, archive |-> NoArchive, fail |-> "none"]
    /\ sched_log = << "No feed_tag found in the table 'feeds'", "A new feed will be imported" >>
    /\ sdb = << >>

(***************************************************************************)
(* The realtime jobs                                                       *)
(***************************************************************************)
RtJobs == {"realtime_fetcher", "test_vehicle_positions", "test_trip_updates"}

\* header.timestamp values (epoch seconds) the upstream serves
Epochs == {1, 2}

RtNone == [kind |-> "none", v |-> 0]
\* vehicle_positions.header.timestamp: the raw integer
Epoch(t) == [kind |-> "epoch", v |-> t]

\* the offsets from UTC of the local time zone, in the unit of the epoch
\* values: UTC itself, and a zone west of it
UtcOffsets == {0, -6}

\* datetime.datetime.fromtimestamp(timestamp), no tz argument: the naive
\* calendar timestamp of the instant in the local time zone of the host
FromTimestamp(t) == [kind |-> "datetime", v |-> t + utc_offset]

\* if not last_timestamp["value"] == timestamp
TimestampAlwaysChanged(last, timestamp) == TRUE
TimestampChangedUnlessNone(last, timestamp) == last # RtNone /\ ~ (last = timestamp)
TimestampChanged(last, timestamp) == ~ (last = timestamp)

\* a cell that pandas fills in for a key the entity does not carry
NaN == "NaN"

\* one entity of the vehicle-positions endpoint as MessageToDict and the
\* flattening of json_normalize(sep="_") name its fields; numbers are written
\* as their decimal text
VehicleEntity(id, lon, lat) ==
    ("id" :> id) @@ ("vehicle_position_longitude" :> lon) @@ ("vehicle_position_latitude" :> lat)
WithTrip(e, trip) == ("vehicle_trip_tripId" :> trip) @@ e
WithTimestamp(e, t) == ("vehicle_timestamp" :> t) @@ e

\* the entities of the vehicle-positions endpoint
VehicleEntityLists ==
    { << >>,
      << WithTimestamp(WithTrip(VehicleEntity("v1", "10", "20"), "trip1"), "3"),
         WithTrip(VehicleEntity("v2", "11", "21"), "trip2") >>,
      << WithTrip(VehicleEntity("v1", "10", "20"), "trip1") >>,
      << WithTimestamp(WithTrip(VehicleEntity("v1", "10", "20"), "trip1"), "3"),
         WithTimestamp(VehicleEntity("v2", "11", "21"), "3") >> }

\* one entity of the trip-updates endpoint, and one of its stop-time updates
TripEntity(id) == ("id" :> id)
WithTripTimestamp(e, t) == ("tripUpdate_timestamp" :> t) @@ e
WithStopTimeUpdates(e, updates) == ("tripUpdate_stopTimeUpdate" :> updates) @@ e
StopTime(stopId) == ("stopId" :> stopId)
WithSequence(u, n) == ("stopSequence" :> n) @@ u
WithArrival(u, t) == ("arrival_time" :> t) @@ u

\* the entities of the trip-updates endpoint
TripEntityLists ==
    { << >>,
      << WithTripTimestamp(TripEntity("t1"), "5") >>,
      << WithStopTimeUpdates(WithTripTimestamp(TripEntity("t1"), "5"),
             << WithArrival(WithSequence(StopTime("a"), "1"), "7"), WithSequence(StopTime("b"), "2") >>) >>,
      << WithStopTimeUpdates(WithTripTimestamp(TripEntity("t1"), "5"), << WithSequence(StopTime("a"), "1") >>),
         TripEntity("t2") >>,
      << WithStopTimeUpdates(WithTripTimestamp(TripEntity("t1"), "5"), << StopTime("a"), StopTime("b") >>) >>,
      << WithStopTimeUpdates(TripEntity("t1"), << WithSequence(StopTime("a"), "1") >>) >> }

\* the stop-time updates an entity carries
StopTimeUpdatesOf(e) ==
    IF "tripUpdate_stopTimeUpdate" \in DOMAIN e THEN e["tripUpdate_stopTimeUpdate"] ELSE << >>

EntityLists(job) == IF job = "test_trip_updates" THEN TripEntityLists ELSE VehicleEntityLists

\* a poll's response: the download or the decoding fails, or a feed message arrives
RtResponses(job) ==
    { [ok |-> FALSE, ts |-> 0, entity |-> << >>] }
    \cup [ok : {TRUE}, ts : Epochs, entity : EntityLists(job)]

\* the inserts at which a store failure is injected
RtFailPoints == {"none", "feed_messages", "entities", "stop_time_updates"}

RtBatch(t, job, poll, rows) == [tbl |-> t, job |-> job, poll |-> poll, rows |-> rows]

FeedMessageKeys(db) ==
    { << r.timestamp, r.entityType >> : r \in RowsOf(db, "feed_messages") }
TripUpdateKeys(db) ==
    { << r.feedMessage_timestamp, r.feedMessage_entityType, r.entityId >> :
         r \in RowsOf(db, "trip_updates") }

\* What the store refuses, models/realtime.py.  With the declared tables in
\* place a batch is refused when it carries an undeclared column or lacks a
\* primary-key column, repeats a primary key, or references a parent row that
\* is not there; VehiclePosition declares vehicle_trip_tripId as a fourth key
\* column.  Tables that to_sql created itself have no keys.
RtStoreRaises(db, b) ==
    /\ schema_created
    /\ \E k \in 1..Len(b.rows) :
          LET r == b.rows[k] IN
          CASE b.tbl = "feed_messages" ->
                 << r.timestamp, r.entityType >> \in FeedMessageKeys(db)
            [] b.tbl \in {"vehicle_positions", "trip_updates"} ->
                 \/ ~ ({"feedMessage_timestamp", "feedMessage_entityType", "entityId"} \subseteq DOMAIN r)
                 \/ "entity_id" \in DOMAIN r
                 \/ /\ b.tbl = "vehicle_positions"
                    /\ ("vehicle_trip_tripId" \notin DOMAIN r \/ r["vehicle_trip_tripId"] = NaN)
                 \/ << r.feedMessage_timestamp, r.feedMessage_entityType >> \notin FeedMessageKeys(db)
                 \/ \E q \in RowsOf(db, b.tbl) :
                       /\ q.feedMessage_timestamp = r.feedMessage_timestamp
                       /\ q.feedMessage_entityType = r.feedMessage_entityType
                       /\ q.entityId = r.entityId
            [] b.tbl = "stop_time_updates" ->
                 \/ "stopSequence" \notin DOMAIN r \/ r["stopSequence"] = NaN
                 \/ << r.feedMessage_timestamp, r.feedMessage_entityType, r.entityId >>
                        \notin TripUpdateKeys(db)
                 \/ \E q \in RowsOf(db, b.tbl) :
                       /\ q.feedMessage_timestamp = r.feedMessage_timestamp
                       /\ q.feedMessage_entityType = r.feedMessage_entityType
                       /\ q.entityId = r.entityId
                       /\ q.stopSequence = r.stopSequence
            [] OTHER -> FALSE

\* the name under which a failure is injected at a batch
FailName(t) == IF t \in {"vehicle_positions", "trip_updates"} THEN "entities" ELSE t

RECURSIVE RtRunRollsBack(_, _, _, _)
RtRunRollsBack(db, batches, i, fail) ==
    IF i > Len(batches) THEN [db |-> db, raised |-> FALSE]
    ELSE IF FailName(batches[i].tbl) = fail \/ RtStoreRaises(db, batches[i])
         THEN [db |-> SubSeq(db, 1, Len(db) - 1), raised |-> TRUE]
         ELSE RtRunRollsBack(Append(db, batches[i]), batches, i + 1, fail)

RECURSIVE RtRun(_, _, _, _)
\* stores the batches from the i-th on, in order, up to the first that raises
RtRun(db, batches, i, fail) ==
    IF i > Len(batches) THEN [db |-> db, raised |-> FALSE]
    ELSE IF FailName(batches[i].tbl) = fail \/ RtStoreRaises(db, batches[i])
         THEN [db |-> db, raised |-> TRUE]
         ELSE RtRun(Append(db, batches[i]), batches, i + 1, fail)

\* the FeedMessage record of test_vehicle_positions.py / test_trip_updates.py
FeedMessageBatchOneType(job, poll, timestamp, entityType) ==
    RtBatch("feed_messages", job, poll,
            << [timestamp |-> timestamp, entityType |-> "entity",
                incrementality |-> "FULL_DATASET", gtfsRealtimeVersion |-> "2.0"] >>)
FeedMessageBatch(job, poll, timestamp, entityType) ==
    RtBatch("feed_messages", job, poll,
            << [timestamp |-> timestamp, entityType |-> entityType,
                incrementality |-> "FULL_DATASET", gtfsRealtimeVersion |-> "2.0"] >>)

\* json_format.MessageToDict(message)["entity"]: the key is missing when the
\* message carries no entity
NoEntityKey(resp) == resp.entity = << >>

Result(last, db, log, raised) == [last |-> last, db |-> db, log |-> log, raised |-> raised]

\* requests.get(url) fails, or ParseFromString(response.content) raises
\* DecodeError on a payload that is not a feed message; nothing catches either
ParseNeverRaises(resp) == FALSE
ParseRaises(resp) == ~ resp.ok

\* int(v) of the decimal text of an embedded epoch-seconds field (MessageToDict
\* writes 64-bit integers as text)
EpochSeconds(v) == CASE v = "3" -> 3 [] v = "5" -> 5 [] v = "7" -> 7

\* pd.json_normalize(dicts, sep="_"): one row per dict, one column per key
\* that any of the dicts carries, NaN where a dict lacks the key
JsonNormalize(dicts) ==
    LET columns == UNION { DOMAIN dicts[i] : i \in 1..Len(dicts) }
    IN  [i \in 1..Len(dicts) |->
            [c \in columns |-> IF c \in DOMAIN dicts[i] THEN dicts[i][c] ELSE NaN]]

\* df.columns
ColumnsOf(df) == IF df = << >> THEN {} ELSE DOMAIN df[1]

\* df[c] = v on one row
Set(row, c, v) == (c :> v) @@ row

\* df.rename(columns={old: new}) on one row
Rename(row, old, new) ==
    IF old \notin DOMAIN row THEN row
    ELSE [c \in (DOMAIN row \ {old}) \cup {new} |-> IF c = new THEN row[old] ELSE row[c]]

\* df.pop(c) on one row
Drop(row, c) == [d \in DOMAIN row \ {c} |-> row[d]]

\* f"POINT({row.vehicle_position_longitude} {row.vehicle_position_latitude})"
Point(row) ==
    [wkt |-> "POINT", x |-> row["vehicle_position_longitude"], y |-> row["vehicle_position_latitude"]]

\* datetime.datetime.fromtimestamp(int(v)) if pd.notnull(v) else None
ConvertEpoch(v) == IF v = NaN THEN RtNone ELSE FromTimestamp(EpochSeconds(v))

\* realtime_fetcher.py, fetch(), lines 49-86
FetchRealtimeFetcher(last, db, poll, resp, fail) ==
    LET job == "realtime_fetcher"
        timestamp == Epoch(resp.ts)
        df == JsonNormalize(resp.entity)
        \* lines 64-67: row.<column> raises AttributeError when no entity has a position
        attribute_error ==
            ~ ({"vehicle_position_longitude", "vehicle_position_latitude"} \subseteq ColumnsOf(df))
    IN  IF ParseRaises(resp) THEN Result(last, db, << "Fetching begins" >>, TRUE)
        ELSE IF ~ TimestampChanged(last, timestamp)
        THEN Result(timestamp, db, << "Fetching begins", "Duplicated FeedMessage" >>, FALSE)
        ELSE IF NoEntityKey(resp) \/ attribute_error
        THEN Result(last, db, << "Fetching begins" >>, TRUE)
        ELSE LET rows == MapSeq(df, LAMBDA row :
                              Set(Set(Rename(row, "id", "entity_id"),
                                      "feedMessage_timestamp", timestamp),
                                  "vehicle_position_point", Point(row)))
                 r == RtRun(db, << RtBatch("vehicle_positions", job, poll, rows) >>, 1, fail)
             IN  Result(timestamp, r.db,
                        << "Fetching begins",
                           IF r.raised THEN "Error at recording" ELSE "Record made" >>,
                        FALSE)

\* test_vehicle_positions.py, fetch(), lines 50-112
FetchVehiclePositions(last, db, poll, resp, fail) ==
    LET job == "test_vehicle_positions"
        timestamp == FromTimestamp(resp.ts)
        entityType == "vehicle"
        df == JsonNormalize(resp.entity)
        \* lines 87-94: row.<column> raises AttributeError when no entity has the field
        attribute_error ==
            ~ ({"vehicle_position_longitude", "vehicle_position_latitude", "vehicle_timestamp"}
                  \subseteq ColumnsOf(df))
    IN  IF ParseRaises(resp) THEN Result(last, db, << "Fetching begins" >>, TRUE)
        ELSE IF ~ TimestampChanged(last, timestamp)
        THEN Result(timestamp, db, << "Fetching begins", "Duplicated FeedMessage" >>, FALSE)
        ELSE LET rows == MapSeq(df, LAMBDA row :
                              Set(Set(Rename(Set(Set(row, "feedMessage_timestamp", timestamp),
                                                 "feedMessage_entityType", entityType),
                                             "id", "entityId"),
                                      "vehicle_position_point", Point(row)),
                                  "vehicle_timestamp", ConvertEpoch(row["vehicle_timestamp"])))
                 r == RtRun(db,
                            << FeedMessageBatch(job, poll, timestamp, entityType) >>
                            \o (IF NoEntityKey(resp) \/ attribute_error THEN << >>
                                ELSE << RtBatch("vehicle_positions", job, poll, rows) >>),
                            1, fail)
             IN  Result(timestamp, r.db,
                        << "Fetching begins",
                           IF r.raised \/ NoEntityKey(resp) \/ attribute_error
                           THEN "Record failed" ELSE "Record made" >>,
                        FALSE)

\* lines 91-113 of test_trip_updates.py for one row of stop_time_builder: no
\* batch when json_normalize raises on the cell of an entity without
\* stop-time updates
StopTimeBatches(job, poll, timestamp, entityType, e) ==
    IF StopTimeUpdatesOf(e) = << >> THEN << >>
    ELSE LET stop_time_updates_df == JsonNormalize(StopTimeUpdatesOf(e))
             Converted(row, c) ==
                 IF c \in ColumnsOf(stop_time_updates_df) THEN Set(row, c, ConvertEpoch(row[c])) ELSE row
         IN  << RtBatch("stop_time_updates", job, poll,
                        MapSeq(stop_time_updates_df, LAMBDA row :
                            Converted(Converted(Set(Set(Set(row, "feedMessage_timestamp", timestamp),
                                                        "feedMessage_entityType", entityType),
                                                    "entityId", e["id"]),
                                                "arrival_time"),
                                      "departure_time"))) >>

RECURSIVE AllStopTimeBatches(_, _, _, _, _, _)
AllStopTimeBatches(job, poll, timestamp, entityType, entity, i) ==
    IF i > Len(entity) THEN << >>
    ELSE StopTimeBatches(job, poll, timestamp, entityType, entity[i])
         \o AllStopTimeBatches(job, poll, timestamp, entityType, entity, i + 1)

\* lines 79-85 and 88: the rows of trip_updates_df
TripUpdateRows(timestamp, entityType, entity) ==
    MapSeq(JsonNormalize(entity), LAMBDA row :
        Drop(Set(Rename(Set(Set(row, "feedMessage_timestamp", timestamp),
                            "feedMessage_entityType", entityType),
                        "id", "entityId"),
                 "tripUpdate_timestamp", ConvertEpoch(row["tripUpdate_timestamp"])),
             "tripUpdate_stopTimeUpdate"))

\* the inserts of test_trip_updates.py after the FeedMessage, in its order:
\* lines 91-113 (stop_time_updates, one batch per trip update), then line 117
TripBatches(job, poll, timestamp, entityType, entity) ==
    AllStopTimeBatches(job, poll, timestamp, entityType, entity, 1)
    \o << RtBatch("trip_updates", job, poll, TripUpdateRows(timestamp, entityType, entity)) >>

\* test_trip_updates.py, fetch(), lines 50-125
FetchTripUpdates(last, db, poll, resp, fail) ==
    LET job == "test_trip_updates"
        timestamp == FromTimestamp(resp.ts)
        entityType == "tripUpdate"
        columns == ColumnsOf(JsonNormalize(resp.entity))
    IN  IF ParseRaises(resp) THEN Result(last, db, << "Fetching begins" >>, TRUE)
        ELSE IF ~ TimestampChanged(last, timestamp)
        THEN Result(timestamp, db, << "Fetching begins", "Duplicated FeedMessage" >>, FALSE)
        ELSE LET fm == RtRun(db, << FeedMessageBatch(job, poll, timestamp, entityType) >>, 1, fail)
                 \* lines 82-85: row.tripUpdate_timestamp raises AttributeError when
                 \* no entity has the field
                 attribute_error == "tripUpdate_timestamp" \notin columns
                 \* line 87: the column exists only when some entity has stop-time updates
                 key_error == "tripUpdate_stopTimeUpdate" \notin columns
             IN  IF fm.raised \/ NoEntityKey(resp) \/ attribute_error \/ key_error
                 THEN Result(last, fm.db, << "Fetching begins" >>, TRUE)
                 ELSE LET r == RtRun(fm.db, TripBatches(job, poll, timestamp, entityType, resp.entity),
                                     1, fail)
                      IN  IF r.raised THEN Result(last, r.db, << "Fetching begins" >>, TRUE)
                          ELSE Result(timestamp, r.db, << "Fetching begins", "Record made" >>, FALSE)

FetchRt(job, last, db, poll, resp, fail) ==
    CASE job = "realtime_fetcher" -> FetchRealtimeFetcher(last, db, poll, resp, fail)
      [] job = "test_vehicle_positions" -> FetchVehiclePositions(last, db, poll, resp, fail)
      [] job = "test_trip_updates" -> FetchTripUpdates(last, db, poll, resp, fail)

\* the injected failure names an insert the job makes on this response
FailApplies(job, last, resp, fail) ==
    \/ fail = "none"
    \/ /\ resp.ok
       /\ TimestampChanged(last, IF job = "realtime_fetcher" THEN Epoch(resp.ts) ELSE FromTimestamp(resp.ts))
       /\ \/ fail = "feed_messages" /\ job # "realtime_fetcher"
          \/ fail = "entities" /\ resp.entity # << >>
          \/ /\ fail = "stop_time_updates" /\ job = "test_trip_updates"
             /\ \E i \in 1..Len(resp.entity) : StopTimeUpdatesOf(resp.entity[i]) # << >>

\* one run of a job's fetch(), while fewer than max_polls polls were made
poll_realtime(job, max_polls) ==
    /\ rt_running[job]
    /\ rt_polls < max_polls
    /\ \E resp \in RtResponses(job), fail \in RtFailPoints :
          /\ FailApplies(job, last_timestamp[job], resp, fail)
          /\ \E r \in { FetchRt(job, last_timestamp[job], rdb, rt_polls + 1, resp, fail) } :
                 /\ last_timestamp' = [last_timestamp EXCEPT ![job] = r.last]
                 /\ rdb' = r.db
                 /\ rt_log' = [rt_log EXCEPT ![job] = r.log]
                 /\ rt_running' = [rt_running EXCEPT ![job] = ~ r.raised]
          /\ rt_obs' = [rt_obs EXCEPT ![job] =
                          [ok |-> resp.ok,
                           timestamp |-> IF ~ resp.ok THEN RtNone
                                         ELSE IF job = "realtime_fetcher" THEN Epoch(resp.ts)
                                         ELSE FromTimestamp(resp.ts),
                           entity |-> resp.entity, fail |-> fail]]
    /\ rt_polls' = rt_polls + 1
    /\ rt_job' = job
    /\ UNCHANGED << schema_created, svars, utc_offset, created >>

fetch_realtime(job) == poll_realtime(job, MaxPolls)

fetch_realtime_fetcher == fetch_realtime("realtime_fetcher")
fetch_vehicle_positions == fetch_realtime("test_vehicle_positions")
fetch_trip_updates == fetch_realtime("test_trip_updates")

InitRealtime ==
    /\ last_timestamp = [j \in RtJobs |-> RtNone]
    /\ rt_running = [j \in RtJobs |-> TRUE]
    /\ rt_polls = 0
    /\ rt_job = "none"
    /\ rt_obs = [j \in RtJobs |-> [ok |-> FALSE, timestamp |-> RtNone, entity |-> << >>, fail |-> "none"]]
    /\ rt_log = [j \in RtJobs |-> << >>]
    /\ utc_offset \in UtcOffsets
    /\ rdb = << >>

(***************************************************************************)
(* models/realtime.py and models/schedule.py: the create_record classmethods *)
(***************************************************************************)
\* coordinates a caller passes
Latitudes == {"20", "21", "22"}
Longitudes == {"10", "11", "12"}

\* the other fields a caller passes as keyword arguments; latitude and
\* longitude are named parameters, so **kwargs never holds them
StopKwargs ==
    { << >>, ("stop_id" :> "s1"), ("stop_id" :> "s1") @@ ("stop_name" :> "n") }
VehicleKwargs ==
    { << >>, ("entityId" :> "v1"), ("entityId" :> "v1") @@ ("vehicle_trip_tripId" :> "trip1") }

\* WKTElement(f"POINT({lon} {lat})", srid=4326)
WktPoint(lon, lat) == [wkt |-> "POINT", x |-> lon, y |-> lat]

NoRecord == [cls |-> "none", lat |-> "", lon |-> "", raised |-> FALSE, record |-> << >>]

\* Stop.create_record, models/schedule.py lines 131-135: cls(**fields) with
\* fields = {"stop_point": point, **kwargs}
StopCreateRecord(stop_lat, stop_lon, kwargs) ==
    [cls |-> "Stop", lat |-> stop_lat, lon |-> stop_lon, raised |-> FALSE,
     record |-> ("stop_point" :> WktPoint(stop_lon, stop_lat)) @@ kwargs]

\* VehiclePosition.create_record, models/realtime.py lines 171-183: cls(fields)
\* hands the dict over as a positional argument, which the declarative
\* constructor (keyword arguments only) refuses with TypeError
VehiclePositionCreateRecord(vehicle_position_latitude, vehicle_position_longitude, kwargs) ==
    [cls |-> "VehiclePosition", lat |-> vehicle_position_latitude,
     lon |-> vehicle_position_longitude, raised |-> TRUE, record |-> << >>]

create_stop ==
    /\ \E lat \in Latitudes, lon \in Longitudes, kwargs \in StopKwargs :
          created' = StopCreateRecord(lat, lon, kwargs)
    /\ UNCHANGED << schema_created, svars, rvars >>

create_vehicle_position ==
    /\ \E lat \in Latitudes, lon \in Longitudes, kwargs \in VehicleKwargs :
          created' = VehiclePositionCreateRecord(lat, lon, kwargs)
    /\ UNCHANGED << schema_created, svars, rvars >>

Init == schema_created \in BOOLEAN /\ InitSchedule /\ InitRealtime /\ created = NoRecord

NextCreateRecord == create_stop \/ create_vehicle_position

SpecCreateRecord == Init /\ [][NextCreateRecord]_vars

NextSchedule == fetch_schedule \/ start_schedule

NextRealtime == fetch_realtime_fetcher \/ fetch_vehicle_positions \/ fetch_trip_updates

\* the schedule job reads no local time: its specification fixes the offset
InitAtUtc ==
    /\ schema_created \in BOOLEAN
    /\ InitSchedule
    /\ InitRealtime
    /\ utc_offset = 0
    /\ created = NoRecord

SpecSchedule == InitAtUtc /\ [][NextSchedule]_vars

SpecRealtime == Init /\ [][NextRealtime]_vars

Next == NextSchedule \/ NextRealtime

Spec == Init /\ [][Next]_vars

\* The jobs are separate processes and no job writes a variable that another
\* job reads: every step of Spec is a step of one side that leaves the other
\* side's variables alone.  SpecOneSide follows one side from the start, the
\* schedule job or the realtime jobs, while the other side has not yet run.
schedule_side == rt_polls = 0 /\ NextSchedule
realtime_side == sched_cycle = 0 /\ NextRealtime

NextOneSide == schedule_side \/ realtime_side

SpecOneSide == Init /\ [][NextOneSide]_vars

\* One realtime job polled on its own, one poll more than the jobs get when
\* they interleave: long enough for a header timestamp to come back after
\* another one was served in between.
MaxJobPolls == 3

only_vehicle_positions ==
    /\ rt_job \in {"none", "test_vehicle_positions"}
    /\ poll_realtime("test_vehicle_positions", MaxJobPolls)

only_trip_updates ==
    /\ rt_job \in {"none", "test_trip_updates"}
    /\ poll_realtime("test_trip_updates", MaxJobPolls)

NextOneJob == only_vehicle_positions \/ only_trip_updates

SpecOneJob == Init /\ [][NextOneJob]_vars

(***************************************************************************)
(* Properties of the schedule job                                          *)
(***************************************************************************)
Proceeded == \E k \in 1..Len(sched_log) : sched_log[k] = "New GTFS Schedule feed detected"
Skipped == \E k \in 1..Len(sched_log) : sched_log[k] = "GTFS Schedule feed is unchanged"
\* the most recent cycle ran to the end of fetch()
Completed == sched_cycle > 0 /\ sched_running /\ (Proceeded \/ Skipped)

BatchesOfCycle(c) == { i \in 1..Len(sdb) : sdb[i].cycle = c }
FeedBatchesOfCycle(c) == { i \in BatchesOfCycle(c) : sdb[i].tbl = "feeds" }
ChildBatchesOfCycle(c) == { i \in BatchesOfCycle(c) : sdb[i].tbl # "feeds" }

\* C1: a schedule cycle whose observed ETag equals the stored last-seen tag
\* stores nothing: the store after the cycle is the store before it.
C1_UnchangedTagInsertsNothing ==
    [][ (sched_cycle' = sched_cycle + 1 /\ sched_obs'.ok
            /\ sched_obs'.etag = last_feed_tag)
        => sdb' = sdb ]_vars

\* a cycle skipped on an unchanged ETag, after an earlier cycle stored a feed
C1_Witness ==
    /\ Skipped /\ sched_obs.etag = last_feed_tag
    /\ RowsOf(sdb, "feeds") # {}

\* C3: after a cycle that failed before completing, the ETag it observed is
\* not the stored last-seen tag.
C3_FailedCycleNotMarkedSeen ==
    (sched_cycle > 0 /\ ~ sched_running) => last_feed_tag # sched_obs.etag

\* C6: every row of every child table, and every GeoShape, carries the feed_id
\* of the Feed row stored by the cycle that stored it, whatever feed_id its
\* source row carried.
C6_FeedIsolation ==
    \A i \in 1..Len(sdb) :
        sdb[i].tbl # "feeds" =>
            /\ \E j \in FeedBatchesOfCycle(sdb[i].cycle) : j < i
            /\ \A j \in FeedBatchesOfCycle(sdb[i].cycle) :
                  \A r \in RowsOfBatch(sdb[i]) :
                      /\ "feed_id" \in DOMAIN r
                      /\ r["feed_id"] = sdb[j].rows[1].feed_id

\* two feeds in the store, the later one loaded from an archive whose files
\* carry a feed_id column naming the earlier feed
C6_Witness ==
    /\ Cardinality({ r.feed_id : r \in RowsOf(sdb, "feeds") }) = 2
    /\ "feed_id" \in DOMAIN sched_obs.archive.extra
    /\ \E i \in ChildBatchesOfCycle(sched_cycle), j \in FeedBatchesOfCycle(sched_cycle) :
          /\ sdb[i].tbl = "trips"
          /\ sdb[i].rows # << >>
          /\ sched_obs.archive.extra["feed_id"] # sdb[j].rows[1].feed_id
          /\ sched_obs.archive.extra["feed_id"] \in { r.feed_id : r \in RowsOf(sdb, "feeds") }

ForeignKeys ==
    { << "agency", "feeds" >>, << "stops", "feeds" >>, << "routes", "feeds" >>,
      << "routes", "agency" >>, << "trips", "feeds" >>, << "trips", "routes" >>,
      << "trips", "calendar" >>, << "trips", "geoshapes" >>, << "stop_times", "feeds" >>,
      << "stop_times", "trips" >>, << "stop_times", "stops" >>, << "calendar", "feeds" >>,
      << "calendar_dates", "feeds" >>, << "calendar_dates", "calendar" >>,
      << "shapes", "feeds" >>, << "geoshapes", "feeds" >>, << "frequencies", "feeds" >>,
      << "frequencies", "trips" >>, << "feed_info", "feeds" >> }

\* C9: within one cycle the tables are stored in the order agency, stops,
\* shapes, calendar, calendar_dates, routes, trips, stop_times, frequencies,
\* feed_info, and for every declared foreign key the referenced table of that
\* cycle is stored before the referencing one.
C9_TableOrder ==
    LET order == << "agency", "stops", "shapes", "calendar", "calendar_dates",
                    "routes", "trips", "stop_times", "frequencies", "feed_info" >>
        Pos(t) == CHOOSE k \in 1..Len(order) : order[k] = t
        InOrder(t) == \E k \in 1..Len(order) : order[k] = t
    IN  \A c \in 1..sched_cycle : \A i, j \in BatchesOfCycle(c) :
            /\ (i < j /\ InOrder(sdb[i].tbl) /\ InOrder(sdb[j].tbl))
                   => Pos(sdb[i].tbl) < Pos(sdb[j].tbl)
            /\ << sdb[i].tbl, sdb[j].tbl >> \in ForeignKeys => j < i

\* a completed cycle that stored all ten tables and the GeoShapes
C9_Witness ==
    /\ Completed
    /\ \A t \in TableNames \cup {"feeds", "geoshapes"} :
          \E i \in BatchesOfCycle(sched_cycle) : sdb[i].tbl = t

\* Shape.shape_pt_sequence is an Integer column: the number a stored
\* shape_pt_sequence text denotes
PtSequence(s) == CASE s = "1" -> 1 [] s = "2" -> 2 [] s = "3" -> 3

\* the shapes rows of shape sid that cycle c stored
ShapeRowsOfCycle(c, sid) ==
    { r \in UNION { RowsOfBatch(sdb[i]) : i \in { j \in BatchesOfCycle(c) : sdb[j].tbl = "shapes" } } :
        r["shape_id"] = sid }

\* C11: every stored GeoShape lists the points of its shape in ascending
\* shape_pt_sequence order, one point per shapes row of that shape, whatever
\* the order of the rows in the shapes table.
C11_GeoShapeInSequenceOrder ==
    \A i \in 1..Len(sdb) :
        sdb[i].tbl = "geoshapes" =>
            \A k \in 1..Len(sdb[i].rows) :
                LET g == sdb[i].rows[k]
                    shape == ShapeRowsOfCycle(sdb[i].cycle, g.geoshape_id)
                IN  /\ Len(g.geoshape) = Cardinality(shape)
                    /\ \A a, b \in 1..Len(g.geoshape) :
                          a < b => \E ra, rb \in shape :
                                      /\ g.geoshape[a] = << ra["shape_pt_lon"], ra["shape_pt_lat"] >>
                                      /\ g.geoshape[b] = << rb["shape_pt_lon"], rb["shape_pt_lat"] >>
                                      /\ PtSequence(ra["shape_pt_sequence"]) < PtSequence(rb["shape_pt_sequence"])

\* the shape_ids among the shapes rows that cycle c stored
ShapeIdsOfCycle(c) ==
    { r["shape_id"] :
        r \in UNION { RowsOfBatch(sdb[i]) : i \in { j \in BatchesOfCycle(c) : sdb[j].tbl = "shapes" } } }

\* the shape_ids of the GeoShapes that cycle c stored
GeoShapeIdsOfCycle(c) ==
    { r.geoshape_id :
        r \in UNION { RowsOfBatch(sdb[i]) : i \in { j \in BatchesOfCycle(c) : sdb[j].tbl = "geoshapes" } } }

Degenerate(c, sid) == Cardinality(ShapeRowsOfCycle(c, sid)) < 2

\* C12: when the shapes table of a cycle has a group of fewer than 2 points
\* (the declared tables exist and nothing else fails), no GeoShape is stored for that group, the
\* GeoShapes of the other groups are stored, and the cycle completes with
\* every remaining table of the archive loaded.
C12_DegenerateShapeSkipped ==
    LET c == sched_cycle IN
    (c > 0 /\ schema_created /\ Proceeded /\ sched_obs.fail = "none"
        /\ \E sid \in ShapeIdsOfCycle(c) : Degenerate(c, sid))
    => /\ \A sid \in ShapeIdsOfCycle(c) :
             Degenerate(c, sid) <=> sid \notin GeoShapeIdsOfCycle(c)
       /\ Completed
       /\ \A t \in sched_obs.archive.files : \E i \in BatchesOfCycle(c) : sdb[i].tbl = t

\* the position of a table in the declared order
TablePos(t) == CHOOSE k \in 1..Len(tables) : tables[k] = t

\* C19: after a cycle in which the load of one table failed, every later
\* table of the declared order that the archive holds was loaded in that cycle.
C19_LaterTablesStillAttempted ==
    (sched_cycle > 0 /\ Proceeded /\ sched_obs.fail \in TableNames)
    => \A t \in sched_obs.archive.files :
          TablePos(t) > TablePos(sched_obs.fail)
              => \E i \in BatchesOfCycle(sched_cycle) : sdb[i].tbl = t

\* C20: a cycle that fails after its download, at a table load or at the
\* GeoShapes, removes nothing: the store before the cycle is a prefix of the
\* store after it, every table the cycle logged as loaded is in the store with
\* its rows, and so is the cycle's Feed row whenever its insert could not be
\* refused or a table was loaded after it.
C20_FailedLoadKeepsCommitted ==
    [][ (/\ sched_cycle' = sched_cycle + 1 /\ ~ sched_running'
         /\ sched_obs'.archive # NoArchive /\ sched_obs'.fail \notin {"feeds", "GET"})
        => LET new == (Len(sdb) + 1)..Len(sdb')
               loaded == { t \in TableNames :
                             \E k \in 1..Len(sched_log') : sched_log'[k] = "Table " \o t \o " loaded" }
           IN  /\ Len(sdb') >= Len(sdb)
               /\ SubSeq(sdb', 1, Len(sdb)) = sdb
               /\ \A t \in loaded :
                     \E i \in new : /\ sdb'[i].tbl = t /\ sdb'[i].cycle = sched_cycle'
                                    /\ sdb'[i].rows # << >>
               /\ (~ schema_created \/ RowsOf(sdb, "feeds") = {} \/ loaded # {})
                     => \E i \in new : /\ sdb'[i].tbl = "feeds" /\ sdb'[i].cycle = sched_cycle'
                                       /\ sdb'[i].rows[1].feed_tag = sched_obs'.etag ]_vars

\* the second cycle failed at the load of trips after loading agency through
\* routes, with the first cycle's feed in the store
C20_Witness ==
    /\ sched_cycle = 2 /\ ~ sched_running /\ sched_obs.fail = "trips"
    /\ \E i \in BatchesOfCycle(1) : sdb[i].tbl = "trips"
    /\ \E i \in BatchesOfCycle(2) : sdb[i].tbl = "feeds"
    /\ \E i \in BatchesOfCycle(2) : sdb[i].tbl = "routes"
    /\ ~ \E i \in BatchesOfCycle(2) : sdb[i].tbl = "trips"

\* C22: every table batch of the most recent cycle holds one row per row of
\* the source file, in the same order; each row carries the feed_id of the
\* cycle's Feed row, exactly the source columns that the table declares (plus
\* feed_id), and the source's values in them.
C22_BatchIsProjectedAndStamped ==
    \A i \in BatchesOfCycle(sched_cycle) :
        sdb[i].tbl \in TableNames =>
            LET source == ReadCsv(sched_obs.archive, sdb[i].tbl)
                declared == Columns(sdb[i].tbl)
            IN  /\ Len(sdb[i].rows) = Len(source)
                /\ \A k \in 1..Len(sdb[i].rows) :
                      LET row == sdb[i].rows[k] IN
                      /\ DOMAIN row = (DOMAIN source[k] \cap declared) \cup {"feed_id"}
                      /\ \A c \in DOMAIN row \ {"feed_id"} : row[c] = source[k][c]
                      /\ \A j \in FeedBatchesOfCycle(sched_cycle) :
                            row["feed_id"] = sdb[j].rows[1].feed_id

\* the most recent cycle stored the four shapes rows of an archive whose files
\* carry an undeclared column and a feed_id column of their own
C22_Witness ==
    /\ {"extra", "feed_id"} \subseteq DOMAIN sched_obs.archive.extra
    /\ \E i \in BatchesOfCycle(sched_cycle) : sdb[i].tbl = "shapes" /\ Len(sdb[i].rows) = 4
    /\ \E i \in BatchesOfCycle(sched_cycle) : sdb[i].tbl = "stop_times"

\* the positions <<batch, row>> of the GeoShapes that cycle c stored for shape sid
GeoShapesAt(c, sid) ==
    UNION { { << i, k >> : k \in { m \in 1..Len(sdb[i].rows) : sdb[i].rows[m].geoshape_id = sid } } :
              i \in { j \in BatchesOfCycle(c) : sdb[j].tbl = "geoshapes" } }

\* C25: with the declared tables in place, in every cycle the GeoShapes are
\* stored right after that cycle's shapes table and before its trips table,
\* and a cycle that stored a shapes table stored exactly one GeoShape for
\* every shape_id of it, carrying the cycle's feed_id.
C25_GeoShapesAfterShapesOnePerShape ==
    schema_created =>
    \A c \in 1..sched_cycle :
        /\ \A i \in BatchesOfCycle(c) :
              sdb[i].tbl = "geoshapes" =>
                  /\ i > 1 /\ sdb[i - 1].tbl = "shapes" /\ sdb[i - 1].cycle = c
                  /\ \A j \in BatchesOfCycle(c) : sdb[j].tbl = "trips" => i < j
        /\ \A sid \in ShapeIdsOfCycle(c) :
              /\ Cardinality(GeoShapesAt(c, sid)) = 1
              /\ \A p \in GeoShapesAt(c, sid), j \in FeedBatchesOfCycle(c) :
                    sdb[p[1]].rows[p[2]].feed_id = sdb[j].rows[1].feed_id

\* the feed_id values of the feeds rows in a store
FeedIdsIn(db) == { r.feed_id : r \in RowsOf(db, "feeds") }

\* C28: within the first process, a cycle that proceeds to the Feed record
\* (changed ETag, parsable Last-Modified, no failure of the store or the
\* download) inserts a Feed row whose feed_id is not yet in feeds.
C28_ProceedingCycleInsertsFreshFeedId ==
    [][ (/\ sched_cycle' = sched_cycle + 1
         /\ sched_starts = 0
         /\ sched_obs'.archive # NoArchive
         /\ sched_obs'.fail = "none")
        => \E i \in (Len(sdb) + 1)..Len(sdb') :
              /\ sdb'[i].tbl = "feeds"
              /\ Len(sdb'[i].rows) = 1
              /\ sdb'[i].rows[1].feed_id \notin FeedIdsIn(sdb) ]_vars

\* SELECT feed_tag FROM feeds WHERE feed_transit_system = ... ORDER BY
\* feed_last_modified DESC LIMIT 1: the tags the query can give on a store
LatestFeedTags(db) ==
    LET mine == { r \in RowsOf(db, "feeds") : r.feed_transit_system = feed_transit_system }
    IN  { r.feed_tag : r \in { x \in mine : \A y \in mine :
                                   y.feed_last_modified <= x.feed_last_modified } }

\* C30: the first poll of a restarted process that observes the ETag of the
\* most recent feeds row is skipped as unchanged and stores nothing.
C30_RestartSkipsStoredTag ==
    [][ (/\ sched_cycle' = sched_cycle + 1
         /\ sched_starts > 0
         /\ ~ \E k \in 1..Len(sched_log) : sched_log[k] = "Checking"
         /\ sched_obs'.ok
         /\ LatestFeedTags(sdb) = {sched_obs'.etag})
        => /\ sdb' = sdb
           /\ \E k \in 1..Len(sched_log') : sched_log'[k] = "GTFS Schedule feed is unchanged"
           /\ ~ \E k \in 1..Len(sched_log') : sched_log'[k] = "New GTFS Schedule feed detected" ]_vars

(***************************************************************************)
(* Properties of the realtime jobs                                         *)
(***************************************************************************)
Logged(job, event) == \E k \in 1..Len(rt_log[job]) : rt_log[job][k] = event

\* the positions <<batch, row>> of the rows of table t in the realtime store
RtRowsAt(t) ==
    UNION { { << i, k >> : k \in 1..Len(rdb[i].rows) } : i \in { j \in 1..Len(rdb) : rdb[j].tbl = t } }

\* C2: a realtime poll whose header timestamp equals the job's last-seen
\* timestamp stores no FeedMessage row and no entity row, and logs the
\* duplicate-detection event.
C2_UnchangedTimestampInsertsNothing ==
    [][ \A j \in RtJobs :
          (rt_polls' = rt_polls + 1 /\ rt_job' = j /\ rt_obs'[j].ok
              /\ rt_obs'[j].timestamp = last_timestamp[j])
          => (rdb' = rdb /\ \E k \in 1..Len(rt_log'[j]) : rt_log'[j][k] = "Duplicated FeedMessage") ]_vars

\* test_vehicle_positions.py stored a message with entities and then polled
\* the same header timestamp again
C2_Witness ==
    LET j == "test_vehicle_positions" IN
    /\ rt_job = j /\ Logged(j, "Duplicated FeedMessage")
    /\ rt_obs[j].timestamp = last_timestamp[j]
    /\ \E p \in RtRowsAt("feed_messages") : rdb[p[1]].job = j
    /\ \E p \in RtRowsAt("vehicle_positions") : rdb[p[1]].job = j

\* C4: a poll is reported as a duplicate of timestamp T only when records of
\* the message with timestamp T were stored by that job: after a poll whose
\* persistence failed for T, polling T again is not a duplicate.
C4_DuplicateOnlyAfterPersisted ==
    \A j \in RtJobs :
        Logged(j, "Duplicated FeedMessage") =>
            \E i \in 1..Len(rdb) :
                /\ rdb[i].job = j
                /\ \E k \in 1..Len(rdb[i].rows) :
                      \/ rdb[i].tbl = "feed_messages" /\ rdb[i].rows[k].timestamp = rt_obs[j].timestamp
                      \/ rdb[i].tbl # "feed_messages"
                            /\ rdb[i].rows[k].feedMessage_timestamp = rt_obs[j].timestamp

\* C5: no error leaves a poll cycle: after any cycle of any job the process
\* is still running.
C5_NoErrorLeavesTheCycle ==
    /\ sched_running
    /\ \A j \in RtJobs : rt_running[j]

\* C7: every stored vehicle position and trip update references exactly one
\* stored FeedMessage through (feedMessage_timestamp, feedMessage_entityType),
\* and every stored stop-time update references exactly one stored trip update
\* through (feedMessage_timestamp, feedMessage_entityType, entityId).
C7_RealtimeForeignKeys ==
    /\ \A p \in RtRowsAt("vehicle_positions") \cup RtRowsAt("trip_updates") :
          LET r == rdb[p[1]].rows[p[2]] IN
          /\ {"feedMessage_timestamp", "feedMessage_entityType"} \subseteq DOMAIN r
          /\ Cardinality({ q \in RtRowsAt("feed_messages") :
                             /\ rdb[q[1]].rows[q[2]].timestamp = r.feedMessage_timestamp
                             /\ rdb[q[1]].rows[q[2]].entityType = r.feedMessage_entityType }) = 1
    /\ \A p \in RtRowsAt("stop_time_updates") :
          LET r == rdb[p[1]].rows[p[2]] IN
          Cardinality({ q \in RtRowsAt("trip_updates") :
                          /\ rdb[q[1]].rows[q[2]].feedMessage_timestamp = r.feedMessage_timestamp
                          /\ rdb[q[1]].rows[q[2]].feedMessage_entityType = r.feedMessage_entityType
                          /\ rdb[q[1]].rows[q[2]].entityId = r.entityId }) = 1

\* C10: in the trip-updates job the FeedMessage row is stored before the trip
\* updates of its message, and every stop-time update is stored after the
\* trip update it references.
C10_ParentBeforeChildren ==
    \A i \in 1..Len(rdb) :
        rdb[i].job = "test_trip_updates" =>
            /\ rdb[i].tbl = "trip_updates" =>
                  \E j \in 1..(i - 1) : rdb[j].tbl = "feed_messages" /\ rdb[j].poll = rdb[i].poll
            /\ rdb[i].tbl = "stop_time_updates" =>
                  \A k \in 1..Len(rdb[i].rows) :
                      \E j \in 1..(i - 1) :
                          /\ rdb[j].tbl = "trip_updates" /\ rdb[j].poll = rdb[i].poll
                          /\ \E m \in 1..Len(rdb[j].rows) :
                                rdb[j].rows[m].entityId = rdb[i].rows[k].entityId
\* the most recent poll was run by job j on a message with a new header
\* timestamp, and no store failure was injected into it
PolledNew(j) ==
    /\ rt_job = j /\ rt_obs[j].ok /\ rt_obs[j].fail = "none"
    /\ ~ Logged(j, "Duplicated FeedMessage")

\* the stop_time_updates rows that the most recent poll stored for entity id
StopTimeRowsOfPoll(id) ==
    { p \in RtRowsAt("stop_time_updates") :
        /\ rdb[p[1]].poll = rt_polls
        /\ rdb[p[1]].rows[p[2]].entityId = id }

\* C13: after a trip-updates poll of a new message, every TripUpdate entity
\* with n stop-time updates has exactly n stored StopTimeUpdate rows of that
\* poll, each carrying the parent's (feedMessage_timestamp,
\* feedMessage_entityType, entityId), and exactly one stored TripUpdate row
\* has that key.
C13_StopTimeUpdatesPerTripUpdate ==
    LET j == "test_trip_updates" IN
    PolledNew(j) =>
        \A i \in 1..Len(rt_obs[j].entity) :
            LET e == rt_obs[j].entity[i] IN
            /\ Cardinality(StopTimeRowsOfPoll(e["id"])) = Len(StopTimeUpdatesOf(e))
            /\ \A p \in StopTimeRowsOfPoll(e["id"]) :
                  LET r == rdb[p[1]].rows[p[2]] IN
                  /\ r.feedMessage_timestamp = rt_obs[j].timestamp
                  /\ r.feedMessage_entityType = "tripUpdate"
                  /\ Cardinality({ q \in RtRowsAt("trip_updates") :
                                     /\ rdb[q[1]].rows[q[2]].feedMessage_timestamp = r.feedMessage_timestamp
                                     /\ rdb[q[1]].rows[q[2]].feedMessage_entityType = r.feedMessage_entityType
                                     /\ rdb[q[1]].rows[q[2]].entityId = r.entityId }) = 1
\* C14: every stored stop-time update carries a non-null stopSequence, and
\* two stored stop-time updates of the same trip update carry different ones.
C14_SequenceUniqueWithinParent ==
    \A p \in RtRowsAt("stop_time_updates") :
        LET r == rdb[p[1]].rows[p[2]] IN
        /\ "stopSequence" \in DOMAIN r
        /\ r["stopSequence"] # NaN
        /\ \A q \in RtRowsAt("stop_time_updates") \ {p} :
              LET o == rdb[q[1]].rows[q[2]] IN
              (/\ o.feedMessage_timestamp = r.feedMessage_timestamp
               /\ o.feedMessage_entityType = r.feedMessage_entityType
               /\ o.entityId = r.entityId)
              => ("stopSequence" \in DOMAIN o /\ o["stopSequence"] # r["stopSequence"])
\* the calendar timestamp of epoch second t in UTC
UtcFromTimestamp(t) == [kind |-> "datetime", v |-> t]

\* the vehicle_positions rows that the most recent poll of job j stored for entity id
VehicleRowsOfPoll(j, id) ==
    { p \in RtRowsAt("vehicle_positions") :
        /\ rdb[p[1]].job = j /\ rdb[p[1]].poll = rt_polls
        /\ rdb[p[1]].rows[p[2]].entityId = id }

\* C15: a vehicle position that test_vehicle_positions.py stored for an entity
\* with embedded timestamp T and position (longitude, latitude) has
\* vehicle_timestamp equal to T converted to UTC and a point whose
\* coordinates are that row's own raw longitude and latitude.
C15_TimestampUtcAndPoint ==
    LET j == "test_vehicle_positions" IN
    rt_job = j =>
        \A i \in 1..Len(rt_obs[j].entity) :
            LET e == rt_obs[j].entity[i] IN
            \A p \in VehicleRowsOfPoll(j, e["id"]) :
                LET r == rdb[p[1]].rows[p[2]] IN
                /\ r["vehicle_position_point"].x = r["vehicle_position_longitude"]
                /\ r["vehicle_position_point"].y = r["vehicle_position_latitude"]
                /\ r["vehicle_position_longitude"] = e["vehicle_position_longitude"]
                /\ r["vehicle_position_latitude"] = e["vehicle_position_latitude"]
                /\ "vehicle_timestamp" \in DOMAIN e =>
                      r["vehicle_timestamp"] = UtcFromTimestamp(EpochSeconds(e["vehicle_timestamp"]))
\* C16: an absent embedded epoch field never raises and is stored as null.
\* A vehicle-positions poll of a new message whose entities all carry their key
\* fields records the message, with vehicle_timestamp a calendar timestamp
\* exactly for the entities that carry it; a trip-updates poll of a message in
\* which no entity carries tripUpdate.timestamp does not end the process.
C16_AbsentEpochFieldNeverRaises ==
    /\ LET j == "test_vehicle_positions" IN
       (/\ PolledNew(j) /\ rt_obs[j].entity # << >>
        /\ \A i \in 1..Len(rt_obs[j].entity) : "vehicle_trip_tripId" \in DOMAIN rt_obs[j].entity[i])
       => /\ Logged(j, "Record made")
          /\ \A i \in 1..Len(rt_obs[j].entity) :
                LET e == rt_obs[j].entity[i] IN
                /\ VehicleRowsOfPoll(j, e["id"]) # {}
                /\ \A p \in VehicleRowsOfPoll(j, e["id"]) :
                      rdb[p[1]].rows[p[2]]["vehicle_timestamp"].kind
                          = (IF "vehicle_timestamp" \in DOMAIN e THEN "datetime" ELSE "none")
    /\ LET j == "test_trip_updates" IN
       (/\ ~ schema_created /\ PolledNew(j)
        /\ \E i \in 1..Len(rt_obs[j].entity) : StopTimeUpdatesOf(rt_obs[j].entity[i]) # << >>
        /\ \A i \in 1..Len(rt_obs[j].entity) : "tripUpdate_timestamp" \notin DOMAIN rt_obs[j].entity[i])
       => rt_running[j]
\* C17: a poll whose payload cannot be decoded as a feed message stores
\* nothing: no FeedMessage row, no entity row and no child row.
C17_UndecodablePayloadStoresNothing ==
    [][ \A j \in RtJobs :
          (rt_polls' = rt_polls + 1 /\ rt_job' = j /\ ~ rt_obs'[j].ok) => rdb' = rdb ]_vars

\* test_vehicle_positions.py or test_trip_updates.py stored a message and then
\* polled a payload that could not be decoded
C17_Witness ==
    /\ rt_job \in {"test_vehicle_positions", "test_trip_updates"}
    /\ ~ rt_obs[rt_job].ok /\ ~ rt_running[rt_job]
    /\ \E i \in 1..Len(rdb) : rdb[i].job = rt_job /\ rdb[i].tbl = "feed_messages"
\* a vehicle entity that lacks the trip id, a key column of VehiclePosition
MalformedVehicle(e) == "vehicle_trip_tripId" \notin DOMAIN e

\* C18: when test_vehicle_positions.py polls a new message in which one
\* entity is malformed and the others are not, no row is stored for the
\* malformed entity and a row is stored for every other entity.
C18_MalformedEntitySkipped ==
    LET j == "test_vehicle_positions"
        entity == rt_obs[j].entity
    IN  (/\ PolledNew(j)
         /\ Cardinality({ i \in 1..Len(entity) : MalformedVehicle(entity[i]) }) = 1
         /\ Len(entity) > 1)
        => \A i \in 1..Len(entity) :
              MalformedVehicle(entity[i]) <=> VehicleRowsOfPoll(j, entity[i]["id"]) = {}
\* C23: FeedMessage rows stored by different jobs have different primary
\* keys (timestamp, entityType), also when they carry the same timestamp.
C23_FeedMessageKeysDistinctAcrossJobs ==
    \A p, q \in RtRowsAt("feed_messages") :
        rdb[p[1]].job # rdb[q[1]].job =>
            << rdb[p[1]].rows[p[2]].timestamp, rdb[p[1]].rows[p[2]].entityType >>
                # << rdb[q[1]].rows[q[2]].timestamp, rdb[q[1]].rows[q[2]].entityType >>

\* with the declared keys in force, the vehicle-positions job and the
\* trip-updates job each stored the FeedMessage of the same header timestamp
C23_Witness ==
    /\ schema_created
    /\ \E p, q \in RtRowsAt("feed_messages") :
          /\ rdb[p[1]].job = "test_vehicle_positions"
          /\ rdb[q[1]].job = "test_trip_updates"
          /\ rdb[p[1]].rows[p[2]].timestamp = rdb[q[1]].rows[q[2]].timestamp

\* C26: every stored entity row, of whatever job, carries entityId (and no
\* id column), feedMessage_timestamp and feedMessage_entityType.
C26_EntityRowsCarryKeyColumns ==
    \A p \in RtRowsAt("vehicle_positions") \cup RtRowsAt("trip_updates") :
        LET r == rdb[p[1]].rows[p[2]] IN
        /\ {"entityId", "feedMessage_timestamp", "feedMessage_entityType"} \subseteq DOMAIN r
        /\ "id" \notin DOMAIN r

\* C29: the FeedMessage rows one job has stored have pairwise different keys
\* (timestamp, entityType), whatever order the header timestamps arrive in.
C29_FeedMessageKeyInsertedOnce ==
    \A p, q \in RtRowsAt("feed_messages") :
        (rdb[p[1]].job = rdb[q[1]].job /\ p # q) =>
            << rdb[p[1]].rows[p[2]].timestamp, rdb[p[1]].rows[p[2]].entityType >>
                # << rdb[q[1]].rows[q[2]].timestamp, rdb[q[1]].rows[q[2]].entityType >>

(***************************************************************************)
(* Properties of all jobs                                                  *)
(***************************************************************************)
\* C21: a poll made while the job's last-seen value is None proceeds whatever
\* it observes: the schedule job takes the new-feed branch on any ETag, and a
\* realtime job never reports a duplicate.
C21_FirstPollProceeds ==
    [][ /\ (/\ sched_cycle' = sched_cycle + 1 /\ last_feed_tag = None
            /\ sched_obs'.ok /\ sched_obs'.etag # Absent)
           => \E k \in 1..Len(sched_log') : sched_log'[k] = "New GTFS Schedule feed detected"
        /\ \A j \in RtJobs :
              (/\ rt_polls' = rt_polls + 1 /\ rt_job' = j /\ last_timestamp[j] = RtNone
               /\ rt_obs'[j].ok)
              => ~ \E k \in 1..Len(rt_log'[j]) : rt_log'[j][k] = "Duplicated FeedMessage" ]_vars

\* the schedule job stored a feed on its first poll; and a realtime job that
\* had not polled yet stored a FeedMessage after another job had polled
C21_Witness ==
    \/ /\ sched_cycle = 1 /\ sched_starts = 0 /\ Proceeded
       /\ RowsOf(sdb, "feeds") # {}
    \/ /\ rt_polls = 2 /\ rt_job = "test_vehicle_positions"
       /\ \A i \in 1..Len(rdb) : rdb[i].job = rt_job => rdb[i].poll = 2
       /\ \E i \in 1..Len(rdb) : rdb[i].job = rt_job /\ rdb[i].tbl = "feed_messages"
\* C24: the store only grows: every step of every job leaves the batches
\* already stored in place and unchanged, in both stores.
C24_AppendOnly ==
    [][ /\ Len(sdb') >= Len(sdb) /\ SubSeq(sdb', 1, Len(sdb)) = sdb
        /\ Len(rdb') >= Len(rdb) /\ SubSeq(rdb', 1, Len(rdb)) = rdb ]_vars

\* two schedule cycles each stored a feed with child tables; or two realtime
\* polls each stored a FeedMessage with entity rows
C24_Witness ==
    \/ /\ \E i \in BatchesOfCycle(1) : sdb[i].tbl = "stop_times"
       /\ \E i \in BatchesOfCycle(2) : sdb[i].tbl = "stop_times"
    \/ /\ \E i, k \in 1..Len(rdb) :
             /\ rdb[i].poll = 1 /\ rdb[i].tbl = "feed_messages"
             /\ rdb[k].poll = 1 /\ rdb[k].tbl \in {"vehicle_positions", "trip_updates"}
       /\ \E i, k \in 1..Len(rdb) :
             /\ rdb[i].poll = 2 /\ rdb[i].tbl = "feed_messages"
             /\ rdb[k].poll = 2 /\ rdb[k].tbl \in {"vehicle_positions", "trip_updates"}
(***************************************************************************)
(* Properties of the create_record classmethods                            *)
(***************************************************************************)
\* C27: create_record does not raise, and the record it returns holds the
\* raw latitude and longitude passed in and the point POINT(lon lat) of them.
C27_CreateRecordConsistent ==
    created.cls # "none" =>
        LET lat_column == IF created.cls = "Stop" THEN "stop_lat" ELSE "vehicle_position_latitude"
            lon_column == IF created.cls = "Stop" THEN "stop_lon" ELSE "vehicle_position_longitude"
            point_column == IF created.cls = "Stop" THEN "stop_point" ELSE "vehicle_position_point"
        IN  /\ ~ created.raised
            /\ {lat_column, lon_column, point_column} \subseteq DOMAIN created.record
            /\ created.record[lat_column] = created.lat
            /\ created.record[lon_column] = created.lon
            /\ created.record[point_column] = WktPoint(created.lon, created.lat)
====
